---- MODULE Spec2Model ----
(***************************************************************************)
(* A model of tutorial/source/elections.ipynb: the electoral-college       *)
(* winner function, the prior covariance, the logits computed from vote    *)
(* counts, the generative model of poll results, the table of              *)
(* marginal states, the four candidate polling allocations, the scoring    *)
(* loop that picks one of them, and the retraining / simulation / analysis *)
(* cells that follow it.                                                   *)
(*                                                                         *)
(* Vectors indexed by state are functions on 0..n-1, as the tensors of the *)
(* notebook are.  Real numbers are kept as integers in a stated unit; the  *)
(* float32 operations whose rounding can change a comparison (the division *)
(* in election_winner, the subtraction in the scoring loop, the sort key   *)
(* of the marginal states, the sample covariance) are modelled with their  *)
(* rounding.                                                               *)
(***************************************************************************)
EXTENDS Integers, Sequences, FiniteSets, TLC

(***************************************************************************)
(* Bounds of the model.                                                    *)
(***************************************************************************)
\* Number of states (rows of the data frames) where the data is an input.
NStates == 2
\* Electoral college votes of one state range over 1..MaxVotes.
MaxVotes == 2
\* alpha is kept in units of 1/AlphaUnit: the integer a stands for a/AlphaUnit.
AlphaUnit == 4
\* A polled state is polled MaxPoll people in the generic model runs.
MaxPoll == 2
\* Number of prior simulations behind dem_prob: a state's prior probability of
\* a Democrat win is c/NSamples for a count c in 0..NSamples.
NSamples == 4
\* Number of rows of the data frame in the cells that rank the states.
NRows == 3
\* Number of historical elections in the data frame.
NElections == 3

(***************************************************************************)
(* Program constants of the cell that builds the candidate allocations.    *)
(***************************************************************************)
NumStates == 51
PollSize == 1000
FloridaIndex == 9
DCIndex == 8

States == 0..(NStates - 1)
Rows == 0..(NRows - 1)
AllStates == 0..(NumStates - 1)

\* The values one alpha_i takes: -1/4, 0, 1/4 and 3/4 for AlphaUnit = 4.
AlphaVals == {-1, 0, 1, 3}
AlphaVectors == [States -> AlphaVals]
VoteVectors == [States -> 1..MaxVotes]
Allocations == [States -> {0, MaxPoll}]

VARIABLES
    pc,                  \* the cell the notebook executes next
    frame_index,         \* frame.index: the state label of each row
    dem_prob,            \* per row, the count c with probability c/NSamples
    marginal,            \* argsort of |dem_prob - .5|
    prior_prob_dem,      \* the table of marginal states: rows (State, p)
    poll_in_florida,
    poll_in_dc,
    uniform_poll,
    swing_score,         \* per position, the rational num/den
    swing_poll,
    poll_strategies,     \* OrderedDict: a sequence of (name, allocation)
    ec_votes_tensor,     \* k: electoral college votes per state
    results_2016,        \* per state, the votes (Democrat, Republican), <<>> until loaded
    true_alpha,          \* alpha implied by the 2016 results, <<>> until loaded
    called,              \* TRUE while the results of a call of model() are held
    conditioned,         \* the call was made through pyro.condition
    polling_allocation,  \* argument of the call
    alpha,               \* value at sample site "alpha"
    poll_results,        \* value at sample site "y"
    dem_win,             \* value returned as dem_win
    site_w,              \* value at sample site "w"
    prior_entropy,       \* H(p(w)), in units of 2^-27
    it,                  \* position of the scoring loop in poll_strategies
    eigs,                \* dict: strategy name -> score, in units of 2^-27
    losses,              \* per strategy, the value posterior_eig returned for it
    best_strategy,
    best_eig,
    guide,               \* the classifier q: the allocation it was trained with
    param_store,         \* Pyro's parameter store: the training it holds
    best_allocation,
    y,                   \* the simulated poll
    q_w,                 \* the classifier's output on y
    logits,              \* per election and state, log(Democrat/Republican), in units of 2^-30
    mean,                \* logits.mean(0), in units of 2^-30
    sample_covariance,   \* per pair of states, in units of 2^-30
    prior_covariance     \* per pair of states, in units of 2^-30

model_vars == <<ec_votes_tensor, results_2016, true_alpha, called, conditioned,
                polling_allocation, alpha, poll_results, dem_win, site_w>>

design_vars == <<frame_index, dem_prob, marginal, prior_prob_dem, poll_in_florida,
                 poll_in_dc, uniform_poll, swing_score, swing_poll, poll_strategies>>

nb_vars == <<prior_entropy, it, eigs, losses, best_strategy, best_eig, guide,
             param_store, best_allocation, y, q_w>>

prior_vars == <<logits, mean, sample_covariance, prior_covariance>>

vars == <<pc, design_vars, model_vars, nb_vars, prior_vars>>

(***************************************************************************)
(* Helpers.                                                                *)
(***************************************************************************)
Min(S) == CHOOSE x \in S : \A z \in S : x <= z

Max(S) == CHOOSE x \in S : \A z \in S : z <= x

\* The sum of f over the integers of S between lo and hi, by halves.
RECURSIVE SumBetween(_, _, _, _)
SumBetween(f, S, lo, hi) ==
    IF lo > hi THEN 0
    ELSE IF lo = hi THEN (IF lo \in S THEN f[lo] ELSE 0)
    ELSE SumBetween(f, S, lo, (lo + hi) \div 2)
             + SumBetween(f, S, (lo + hi) \div 2 + 1, hi)

\* The sum of f over the set of integers S.
SumOver(f, S) == IF S = {} THEN 0 ELSE SumBetween(f, S, Min(S), Max(S))

Sum(f) == SumOver(f, DOMAIN f)

Range(f) == {f[i] : i \in DOMAIN f}

Abs(x) == IF x < 0 THEN -x ELSE x

RECURSIVE GCD(_, _)
GCD(a, b) == IF b = 0 THEN a ELSE GCD(b, a % b)

LCM(a, b) == (a * b) \div GCD(a, b)

\* The least common multiple of f over the integers of S between lo and hi,
\* by halves.
RECURSIVE LCMBetween(_, _, _, _)
LCMBetween(f, S, lo, hi) ==
    IF lo > hi THEN 1
    ELSE IF lo = hi THEN (IF lo \in S THEN f[lo] ELSE 1)
    ELSE LCM(LCMBetween(f, S, lo, (lo + hi) \div 2),
             LCMBetween(f, S, (lo + hi) \div 2 + 1, hi))

\* The least common multiple of f over the set of integers S.
LCMOver(f, S) == IF S = {} THEN 1 ELSE LCMBetween(f, S, Min(S), Max(S))

NoVector == <<>>

\* The float value NaN, where a vector of non-negative numbers can hold it.
NaN == -1

Two24 == 2^24
Two27 == 2^27

\* a / b for integers a >= 0, b > 0, rounded to the nearest integer, ties to
\* the even one (the rounding of float32 arithmetic and of torch.round).
RoundDiv(a, b) ==
    LET q == a \div b
        r == a % b
    IN IF 2 * r > b \/ (2 * r = b /\ q % 2 = 1) THEN q + 1 ELSE q

\* The spacing of the float32 numbers around a, for a >= 0 in units of 2^-27:
\* 1 below 2^-3, doubling with every power of two.
RECURSIVE Ulp(_)
Ulp(a) == IF a < Two24 THEN 1 ELSE 2 * Ulp(a \div 2)

\* The float32 number nearest to x, for x in units of 2^-27.
Fl32(x) ==
    LET r == RoundDiv(Abs(x), Ulp(Abs(x))) * Ulp(Abs(x))
    IN IF x < 0 THEN -r ELSE r

\* float32 division s / t of two small non-negative integers, in units of 2^-24.
\* Between 1/2 and 1 this is the float32 grid; below 1/2 the float32 grid is
\* finer, and a quotient below 1/2 is rounded here to at most 1/2, as it is
\* there.  0/0 is NaN.
Div32(s, t) == IF t = 0 THEN NaN ELSE RoundDiv(s * Two24, t)

\* x > .5 for x in units of 2^-24; a comparison with NaN is False.
GtHalf(x) == x # NaN /\ 2 * x > Two24

Two12 == 2^12
Two30 == 2^30

\* float32 division s / t of two small integers s >= 0 and t > 0, in units of
\* 2^-27.  Exact for quotients that are 0 or at least 2^-4.
Quot32(s, t) ==
    LET u == Ulp((s * Two27) \div t)
    IN u * RoundDiv(s * (Two27 \div u), t)

\* float32 addition and subtraction of two float32 numbers given in one unit:
\* the exact result is an integer in that unit and is rounded once.
Add32(a, b) == Fl32(a + b)

Sub32(a, b) == Fl32(a - b)

\* float32 division of the float32 number x by the integer n > 0, in the unit
\* of x.  Exact down to quotients of 2^24 units; a smaller quotient is rounded
\* to the unit.
DivInt32(x, n) ==
    LET g == Ulp(Abs(x) \div n)
        r == g * RoundDiv(Abs(x), n * g)
    IN IF x < 0 THEN -r ELSE r

\* (H * 2^24 + L) \div K for a power of two K, with 0 <= L < 2^24.
FloorHL(H, L, K) ==
    IF K <= Two24 THEN H * (Two24 \div K) + L \div K ELSE H \div (K \div Two24)

\* The remainder of that division against K/2: 1 above, 0 equal, -1 below.
HalfHL(H, L, K) ==
    IF K <= Two24
    THEN LET r == L % K
         IN IF 2 * r > K THEN 1 ELSE IF 2 * r = K THEN 0 ELSE -1
    ELSE LET K2 == K \div Two24
             rh == H % K2
         IN IF 2 * rh > K2 \/ (2 * rh = K2 /\ L > 0) THEN 1
            ELSE IF 2 * rh = K2 THEN 0 ELSE -1

\* float32 multiplication of two float32 numbers given in units of 2^-30, in
\* the same unit.  The 48-bit product of the two 24-bit significands is held
\* as H * 2^24 + L and rounded once, ties to even.  Exact down to products of
\* 2^-6; a smaller product is rounded to the unit.
Mul32(a, b) ==
    LET ma == Abs(a)
        mb == Abs(b)
        sa == ma \div Ulp(ma)
        sb == mb \div Ulp(mb)
        a1 == sa \div Two12
        a0 == sa % Two12
        b1 == sb \div Two12
        b0 == sb % Two12
        mid == a1 * b0 + a0 * b1
        lo == (mid % Two12) * Two12 + a0 * b0
        H == a1 * b1 + mid \div Two12 + lo \div Two24
        L == lo % Two24
        K0 == Two30 \div (Ulp(ma) * Ulp(mb))
        g == Ulp(FloorHL(H, L, K0))
        K == K0 * g
        q == FloorHL(H, L, K)
        h == HalfHL(H, L, K)
        r == g * (IF h = 1 \/ (h = 0 /\ q % 2 = 1) THEN q + 1 ELSE q)
    IN IF (a < 0) # (b < 0) THEN -r ELSE r

(***************************************************************************)
(* election_winner                                                         *)
(***************************************************************************)
dem_win_state_geq(a) == [i \in DOMAIN a |-> IF a[i] >= 0 THEN 1 ELSE 0]

dem_win_state(a) == [i \in DOMAIN a |-> IF a[i] > 0 THEN 1 ELSE 0]

dem_electoral_college_votes(a) ==
    [i \in DOMAIN a |-> ec_votes_tensor[i] * dem_win_state(a)[i]]

election_winner_geq(a) ==
    IF 2 * Div32(Sum(dem_electoral_college_votes(a)), Sum(ec_votes_tensor)) >= Two24
    THEN 1 ELSE 0

election_winner(a) ==
    IF GtHalf(Div32(Sum(dem_electoral_college_votes(a)), Sum(ec_votes_tensor)))
    THEN 1 ELSE 0

\* a / b for integers a >= 0, b > 0, rounded up.
CeilDiv(a, b) == (a + b - 1) \div b

\* torch.log(q) for a float32 q > 0 in units of 2^-27, in units of 1/AlphaUnit.
\* The logarithm is 0 at q = 1, negative below it and positive above it; it is
\* taken as 2(q - 1)/(q + 1), its first rational approximation, and rounded
\* away from 0, since in float32 the logarithm of a q other than 1 is not 0.
Log32(q) ==
    LET a == CeilDiv(2 * AlphaUnit * Abs(q - Two27), q + Two27)
    IN IF q < Two27 THEN -a ELSE a

\* One row of election results: the votes at column 0 (Democrat) and 1 (Republican).
Pair(d, r) == [k \in 0..1 |-> IF k = 0 THEN d ELSE r]

\* The votes explored for a state.
CountPairs == {Pair(2, 3), Pair(3, 3), Pair(4, 3), Pair(2, 1)}

LogRatio_swapped(results) ==
    [i \in DOMAIN results |-> Log32(Quot32(results[i][1], results[i][0]))]

\* torch.log(results[..., 0] / results[..., 1])
LogRatio(results) ==
    [i \in DOMAIN results |-> Log32(Quot32(results[i][0], results[i][1]))]

(***************************************************************************)
(* model(polling_allocation)                                               *)
(***************************************************************************)
\* The k smallest elements of a set of integers.
FirstK(S, k) == {i \in S : Cardinality({j \in S : j < i}) < k}

\* Poll results drawn from Binomial(n, logits = alpha).to_event(1): one count
\* per state, between 0 and the number polled there.  The draws are bounded:
\* up to MaxPoll Democrat answers in each of the first NStates polled states
\* and none in the others.  For the allocations of Allocations this is the
\* whole support.
Binomial(n) ==
    LET free == FirstK({i \in DOMAIN n : n[i] > 0}, NStates)
        draws == {f \in [free -> 0..MaxPoll] : \A i \in free : f[i] <= n[i]}
    IN {[i \in DOMAIN n |-> IF i \in free THEN f[i] ELSE 0] : f \in draws}

model_ignores_allocation(n, a, c) ==
    \E draw \in Binomial([i \in DOMAIN n |-> MaxPoll]) :
        /\ poll_results' = draw
        /\ polling_allocation' = n
        /\ alpha' = a
        /\ dem_win' = election_winner(a)
        /\ site_w' = dem_win'
        /\ conditioned' = c
        /\ called' = TRUE

model_w_from_poll(n, a, c) ==
    \E draw \in Binomial(n) :
        /\ poll_results' = draw
        /\ polling_allocation' = n
        /\ alpha' = a
        /\ dem_win' = election_winner([i \in DOMAIN draw |-> 2 * draw[i] - n[i]])
        /\ site_w' = dem_win'
        /\ conditioned' = c
        /\ called' = TRUE

\* One run of model(n) in which the site "alpha" takes the value a: drawn from
\* the prior (c = FALSE) or fixed by pyro.condition (c = TRUE).  The site "y"
\* is drawn, dem_win is computed from alpha, and the site "w", a Delta
\* distribution on dem_win, takes that value.
model(n, a, c) ==
    \E draw \in Binomial(n) :
        /\ poll_results' = draw
        /\ polling_allocation' = n
        /\ alpha' = a
        /\ dem_win' = election_winner(a)
        /\ site_w' = dem_win'
        /\ conditioned' = c
        /\ called' = TRUE

\* model(n) with alpha drawn from the multivariate normal prior.
RunModel ==
    /\ ~called
    /\ true_alpha = NoVector
    /\ \E n \in Allocations, a \in AlphaVectors : model(n, a, FALSE)
    /\ UNCHANGED <<prior_vars, pc, design_vars, nb_vars, ec_votes_tensor, results_2016,
                   true_alpha>>

\* true_alpha is computed from the 2016 results.
LoadTestData ==
    /\ ~called
    /\ true_alpha = NoVector
    /\ results_2016' \in [States -> CountPairs]
    /\ true_alpha' = LogRatio(results_2016')
    /\ UNCHANGED <<prior_vars, pc, design_vars, nb_vars, ec_votes_tensor, called, conditioned,
                   polling_allocation, alpha, poll_results, dem_win, site_w>>

\* conditioned_model(n) = pyro.condition(model, data={"alpha": true_alpha})(n)
RunConditioned ==
    /\ ~called
    /\ true_alpha # NoVector
    /\ \E n \in Allocations : model(n, true_alpha, TRUE)
    /\ UNCHANGED <<prior_vars, pc, design_vars, nb_vars, ec_votes_tensor, results_2016,
                   true_alpha>>

\* The caller takes the returned values; the next call starts afresh.
Return ==
    /\ called
    /\ called' = FALSE
    /\ conditioned' = FALSE
    /\ polling_allocation' = NoVector
    /\ alpha' = NoVector
    /\ poll_results' = NoVector
    /\ dem_win' = 0
    /\ site_w' = 0
    /\ UNCHANGED <<prior_vars, pc, design_vars, nb_vars, ec_votes_tensor, results_2016,
                   true_alpha>>

\* No call of model() is held.
NoCall ==
    /\ called = FALSE
    /\ conditioned = FALSE
    /\ polling_allocation = NoVector
    /\ alpha = NoVector
    /\ poll_results = NoVector
    /\ dem_win = 0
    /\ site_w = 0

(***************************************************************************)
(* The table of marginal states and the candidate allocations.             *)
(***************************************************************************)
\* State labels are the integers 1..n in the order pandas sorts the labels.
Labels(D) == {i + 1 : i \in D}

Bijections(D, R) == {f \in [D -> R] : \A i, j \in D : f[i] = f[j] => i = j}

\* The mean of NSamples float32 values of which c are 1. and the others 0.:
\* the float32 quotient c / NSamples, in units of 2^-27.
Mean32(c) == Quot32(c, NSamples)

MarginKey_signed(c) == Sub32(Mean32(c), Two27 \div 2)

\* (dem_prob - .5).abs() for the count c, in units of 2^-27.
MarginKey(c) == Abs(Sub32(Mean32(c), Two27 \div 2))

\* The results torch.argsort can give for the keys key[i]: the permutations
\* that put the keys in non-decreasing order; equal keys come in any order.
ArgSorts(key) ==
    {m \in Bijections(DOMAIN key, DOMAIN key) :
        \A i, j \in DOMAIN key : i < j => key[m[i]] <= key[m[j]]}

\* One of them: equal keys in the order of their positions.
StableArgSort(key) ==
    [r \in DOMAIN key |->
        CHOOSE i \in DOMAIN key :
            Cardinality({j \in DOMAIN key :
                key[j] < key[i] \/ (key[j] = key[i] /\ j < i)}) = r]

\* The data frame with index `index` and one column holding `column`, with
\* both re-ordered by the positions `order`.
DataFrame(index, column, order) ==
    [r \in DOMAIN order |-> [State |-> index[order[r]], p |-> column[order[r]]]]

\* table.sort_values("State"): the rows in the order of their labels.
sort_values_State(table) ==
    [i \in DOMAIN table |->
        CHOOSE r \in Range(table) :
            Cardinality({q \in Range(table) : q.State < r.State}) = i]

\* 1. / (.5 - p).abs() for p = c/NSamples, as the rational num/den; den = 0
\* stands for the float inf.
SwingScore(c) == [num |-> 2 * NSamples, den |-> Abs(NSamples - 2 * c)]

swing_score_value(table) ==
    LET sorted == sort_values_State(table)
    IN [i \in DOMAIN sorted |-> SwingScore(sorted[i].p)]

\* (1000 * swing_score / swing_score.sum()).round(), computed exactly: the
\* scores are proportional to L/den for the least common multiple L of the
\* denominators.  With an infinite score the sum is inf: inf/inf is NaN and
\* every finite score gives 0.
swing_poll_value(score) ==
    IF \E i \in DOMAIN score : score[i].den = 0
    THEN [i \in DOMAIN score |-> IF score[i].den = 0 THEN NaN ELSE 0]
    ELSE LET den == [i \in DOMAIN score |-> score[i].den]
             L == LCMOver(den, DOMAIN den)
             w == [i \in DOMAIN score |-> L \div den[i]]
         IN [i \in DOMAIN score |-> RoundDiv(PollSize * w[i], Sum(w))]

OneStatePoll_one_based(index) ==
    [i \in AllStates |-> IF i = index - 1 THEN PollSize ELSE 0]

OneStatePoll(index) == [i \in AllStates |-> IF i = index THEN PollSize ELSE 0]

UniformPoll_rounded_up ==
    [i \in AllStates |-> (PollSize + NumStates - 1) \div NumStates]

UniformPoll == [i \in AllStates |-> PollSize \div NumStates]

PollStrategies(florida, dc, uniform, swing) ==
    << <<"Florida", florida>>, <<"DC", dc>>, <<"Uniform", uniform>>, <<"Swing", swing>> >>

\* poll_strategies[name]; a name that is no key has no entry.
Lookup(dict, name) ==
    LET hits == {k \in DOMAIN dict : dict[k][1] = name}
    IN IF hits = {} THEN NoVector ELSE dict[CHOOSE k \in hits : TRUE][2]

\* The cell computing dem_prob's ranking and the table prior_prob_dem.
Cell21 ==
    /\ pc = "cell21"
    /\ \E m \in ArgSorts([i \in DOMAIN dem_prob |-> MarginKey(dem_prob[i])]) :
          /\ marginal' = m
          /\ prior_prob_dem' = DataFrame(frame_index, dem_prob, m)
    /\ pc' = "cell35"
    /\ UNCHANGED <<prior_vars, frame_index, dem_prob, poll_in_florida, poll_in_dc, uniform_poll,
                   swing_score, swing_poll, poll_strategies, model_vars, nb_vars>>

\* The cell building the four candidate allocations.
Cell35 ==
    /\ pc = "cell35"
    /\ poll_in_florida' = OneStatePoll(FloridaIndex)
    /\ poll_in_dc' = OneStatePoll(DCIndex)
    /\ uniform_poll' = UniformPoll
    /\ swing_score' = swing_score_value(prior_prob_dem)
    /\ swing_poll' = swing_poll_value(swing_score')
    /\ poll_strategies' =
          PollStrategies(poll_in_florida', poll_in_dc', uniform_poll', swing_poll')
    /\ pc' = "cell37"
    /\ UNCHANGED <<prior_vars, frame_index, dem_prob, marginal, prior_prob_dem, model_vars,
                   nb_vars>>

\* Nothing of the table or the allocations is computed yet.
NoDesign ==
    /\ marginal = NoVector
    /\ prior_prob_dem = NoVector
    /\ poll_in_florida = NoVector
    /\ poll_in_dc = NoVector
    /\ uniform_poll = NoVector
    /\ swing_score = NoVector
    /\ swing_poll = NoVector
    /\ poll_strategies = NoVector

(***************************************************************************)
(* The scoring loop and the cells after it.                                *)
(***************************************************************************)
\* The values posterior_eig(..., eig=False) returns in the runs explored, in
\* units of 2^-27: 0.0625, 0.0625 + 2^-27, 0.625 and 0.75.
ApeVals == {Two27 \div 16, Two27 \div 16 + 1, 5 * (Two27 \div 8), 3 * (Two27 \div 4)}

\* The values of prior_entropy explored: 0.5 and 0.625 (at most ln 2).
EntropyVals == {Two27 \div 2, 5 * (Two27 \div 8)}

\* A classifier straight from OutcomePredictor(): not trained.
OutcomePredictor == [trained_with |-> NoVector]

\* The classifier after posterior_eig(model, design, ..., guide, ...) has run
\* its gradient steps on polls simulated with `design`.
Trained(design) == [trained_with |-> design]

\* dict[key] = value
Store(dict, key, value) ==
    [k \in DOMAIN dict \cup {key} |-> IF k = key THEN value ELSE dict[k]]

\* prior_entropy - ape, a float32 subtraction.
Eig(entropy, ape) == Fl32(entropy - ape)

ScoreStrategy_new_entropy ==
    /\ pc = "cell37"
    /\ LET strategy == poll_strategies[it][1]
           allocation == poll_strategies[it][2]
       IN \E ape \in ApeVals, h \in EntropyVals :
             LET eig == Eig(h, ape)
             IN /\ param_store' = Trained(allocation)
                /\ guide' = Trained(allocation)
                /\ losses' = Store(losses, strategy, ape)
                /\ eigs' = Store(eigs, strategy, eig)
                /\ IF eig > best_eig
                   THEN best_strategy' = strategy /\ best_eig' = eig
                   ELSE UNCHANGED <<best_strategy, best_eig>>
    /\ it' = it + 1
    /\ pc' = IF it = Len(poll_strategies) THEN "cell40" ELSE "cell37"
    /\ UNCHANGED <<prior_vars, design_vars, model_vars, prior_entropy, best_allocation, y, q_w>>

\* One pass of the loop over poll_strategies.items(): a new classifier, the
\* parameter store cleared, posterior_eig trains the classifier with the
\* allocation and returns ape, the score is stored and the best kept.
ScoreStrategy ==
    /\ pc = "cell37"
    /\ LET strategy == poll_strategies[it][1]
           allocation == poll_strategies[it][2]
       IN \E ape \in ApeVals :
             LET eig == Eig(prior_entropy, ape)
             IN /\ param_store' = Trained(allocation)
                /\ guide' = Trained(allocation)
                /\ losses' = Store(losses, strategy, ape)
                /\ eigs' = Store(eigs, strategy, eig)
                /\ IF eig > best_eig
                   THEN best_strategy' = strategy /\ best_eig' = eig
                   ELSE UNCHANGED <<best_strategy, best_eig>>
    /\ it' = it + 1
    /\ pc' = IF it = Len(poll_strategies) THEN "cell40" ELSE "cell37"
    /\ UNCHANGED <<prior_vars, design_vars, model_vars, prior_entropy, best_allocation, y, q_w>>

Cell40_no_retraining ==
    /\ pc = "cell40"
    /\ IF best_strategy = "None"
       THEN /\ pc' = "error"
            /\ UNCHANGED <<best_allocation, param_store, guide>>
       ELSE /\ best_allocation' = Lookup(poll_strategies, best_strategy)
            /\ UNCHANGED <<param_store, guide>>
            /\ pc' = "cell42"
    /\ UNCHANGED <<prior_vars, design_vars, model_vars, prior_entropy, it, eigs, losses,
                   best_strategy, best_eig, y, q_w>>

\* The retraining cell.  With best_strategy still None the lookup raises
\* KeyError and the notebook stops.
Cell40 ==
    /\ pc = "cell40"
    /\ IF best_strategy = "None"
       THEN /\ pc' = "error"
            /\ UNCHANGED <<best_allocation, param_store, guide>>
       ELSE /\ best_allocation' = Lookup(poll_strategies, best_strategy)
            /\ param_store' = Trained(best_allocation')
            /\ guide' = Trained(best_allocation')
            /\ pc' = "cell42"
    /\ UNCHANGED <<prior_vars, design_vars, model_vars, prior_entropy, it, eigs, losses,
                   best_strategy, best_eig, y, q_w>>

\* The 2016 results explored: every state with the same votes, 2 to 3 or 2 to 1.
TestResults == {[i \in AllStates |-> p] : p \in {Pair(2, 3), Pair(2, 1)}}

\* The cell computing true_alpha from the 2016 results.
Cell42 ==
    /\ pc = "cell42"
    /\ results_2016' \in TestResults
    /\ true_alpha' = LogRatio(results_2016')
    /\ pc' = "cell43"
    /\ UNCHANGED <<prior_vars, design_vars, nb_vars, ec_votes_tensor, called, conditioned,
                   polling_allocation, alpha, poll_results, dem_win, site_w>>

\* y, _, _ = conditioned_model(best_allocation)
Cell43 ==
    /\ pc = "cell43"
    /\ model(best_allocation, true_alpha, TRUE)
    /\ y' = poll_results'
    /\ pc' = "cell47"
    /\ UNCHANGED <<prior_vars, design_vars, ec_votes_tensor, results_2016, true_alpha,
                   prior_entropy, it, eigs,
                   losses, best_strategy, best_eig, guide, param_store,
                   best_allocation, q_w>>

\* q_w = sigmoid(guide.compute_dem_probability(y)): the output on y of the
\* classifier that `guide` names.
Cell47 ==
    /\ pc = "cell47"
    /\ q_w' = [trained_with |-> guide.trained_with, y |-> y]
    /\ pc' = "done"
    /\ UNCHANGED <<prior_vars, design_vars, model_vars, prior_entropy, it, eigs, losses,
                   best_strategy, best_eig, guide, param_store, best_allocation, y>>

\* Nothing of the scoring loop or the cells after it has run.
NoNotebook ==
    /\ it = 1
    /\ eigs = NoVector
    /\ losses = NoVector
    /\ best_strategy = "None"
    /\ best_eig = 0
    /\ guide = NoVector
    /\ param_store = NoVector
    /\ best_allocation = NoVector
    /\ y = NoVector
    /\ q_w = NoVector

(***************************************************************************)
(* The prior covariance.                                                   *)
(***************************************************************************)
Elections == 0..(NElections - 1)

\* The float32 values the logits are drawn from: -1/2, 0 and 1/2.
LogitVals == {-(Two30 \div 2), 0, Two30 \div 2}

LogitTables == [Elections -> [States -> LogitVals]]

\* The float32 sum of f over 0..(n - 1), accumulated in that order.
RECURSIVE Sum32(_, _)
Sum32(f, n) == IF n = 0 THEN 0 ELSE Add32(Sum32(f, n - 1), f[n - 1])

\* logits.mean(0): per state, the sum over the elections divided by their number.
mean_value(l) ==
    [j \in States |-> DivInt32(Sum32([t \in Elections |-> l[t][j]], NElections), NElections)]

\* The float32 number nearest to 0.01, in units of 2^-30.
Cent32 == 10737418

\* torch.eye(n)
eye(i, j) == IF i = j THEN Two30 ELSE 0

\* (1/(T - 1)) * ((logits.unsqueeze(-1) - mean) * (logits.unsqueeze(-2) - mean)).sum(0)
\* Against the tensor of shape (T, n, 1) the vector mean is broadcast along the
\* last axis: the first factor at [t, i, j] is logits[t, i] - mean[j], the
\* second is logits[t, j] - mean[j].
sample_covariance_value(l, m) ==
    LET factor1(t, i, j) == Sub32(l[t][i], m[j])
        factor2(t, i, j) == Sub32(l[t][j], m[j])
        total(i, j) ==
            Sum32([t \in Elections |-> Mul32(factor1(t, i, j), factor2(t, i, j))], NElections)
    IN [i \in States |-> [j \in States |->
           Mul32(DivInt32(Two30, NElections - 1), total(i, j))]]

\* sample_covariance + 0.01 * torch.eye(n)
prior_covariance_value(S) ==
    [i \in States |-> [j \in States |-> Add32(S[i][j], Mul32(Cent32, eye(i, j)))]]

\* The cell computing the prior covariance from the historical results.
Cell12 ==
    /\ pc = "cell12"
    /\ mean' = mean_value(logits)
    /\ sample_covariance' = sample_covariance_value(logits, mean')
    /\ prior_covariance' = prior_covariance_value(sample_covariance')
    /\ pc' = "cell14"
    /\ UNCHANGED <<logits, design_vars, model_vars, nb_vars>>

\* The prior covariance is not computed yet.
NoPrior ==
    /\ logits = NoVector
    /\ mean = NoVector
    /\ sample_covariance = NoVector
    /\ prior_covariance = NoVector

(***************************************************************************)
(* Specifications.                                                         *)
(***************************************************************************)
\* Calls of model and conditioned_model, for any votes k and any alpha.
ModelInit ==
    /\ pc = "model"
    /\ frame_index = NoVector
    /\ dem_prob = NoVector
    /\ NoDesign
    /\ ec_votes_tensor \in VoteVectors
    /\ results_2016 = NoVector
    /\ true_alpha = NoVector
    /\ NoCall
    /\ prior_entropy = 0
    /\ NoNotebook
    /\ NoPrior

ModelNext == RunModel \/ LoadTestData \/ RunConditioned \/ Return

SpecModel == ModelInit /\ [][ModelNext]_vars

\* The cells that rank the states and build the allocations, for any order of
\* the rows of the data frame and any prior probabilities.
DesignInit ==
    /\ pc = "cell21"
    /\ frame_index \in Bijections(Rows, Labels(Rows))
    /\ dem_prob \in [Rows -> 0..NSamples]
    /\ NoDesign
    /\ ec_votes_tensor = NoVector
    /\ results_2016 = NoVector
    /\ true_alpha = NoVector
    /\ NoCall
    /\ prior_entropy = 0
    /\ NoNotebook
    /\ NoPrior

DesignNext == Cell21 \/ Cell35

SpecDesign == DesignInit /\ [][DesignNext]_vars

\* The prior probabilities explored for the 51 states: every state at 1/NSamples,
\* or every state at 0 but Florida at 1/NSamples.
DemProbs == {[i \in AllStates |-> 1],
             [i \in AllStates |-> IF i = FloridaIndex THEN 1 ELSE 0]}

\* The notebook from the scoring loop on: the state after the cell that builds
\* the allocations, for a data frame of 51 rows in the order of their labels
\* and one electoral college vote per state.
Init ==
    /\ pc = "cell37"
    /\ frame_index = [i \in AllStates |-> i + 1]
    /\ dem_prob \in DemProbs
    /\ marginal = StableArgSort([i \in AllStates |-> MarginKey(dem_prob[i])])
    /\ prior_prob_dem = DataFrame(frame_index, dem_prob, marginal)
    /\ poll_in_florida = OneStatePoll(FloridaIndex)
    /\ poll_in_dc = OneStatePoll(DCIndex)
    /\ uniform_poll = UniformPoll
    /\ swing_score = swing_score_value(prior_prob_dem)
    /\ swing_poll = swing_poll_value(swing_score)
    /\ poll_strategies = PollStrategies(poll_in_florida, poll_in_dc, uniform_poll, swing_poll)
    /\ ec_votes_tensor = [i \in AllStates |-> 1]
    /\ results_2016 = NoVector
    /\ true_alpha = NoVector
    /\ NoCall
    /\ prior_entropy \in EntropyVals
    /\ NoNotebook
    /\ NoPrior

Next == ScoreStrategy \/ Cell40 \/ Cell42 \/ Cell43 \/ Cell47

Spec == Init /\ [][Next]_vars

\* The cell computing the prior covariance, for any table of logits.
PriorInit ==
    /\ pc = "cell12"
    /\ logits \in LogitTables
    /\ mean = NoVector
    /\ sample_covariance = NoVector
    /\ prior_covariance = NoVector
    /\ frame_index = NoVector
    /\ dem_prob = NoVector
    /\ NoDesign
    /\ ec_votes_tensor = NoVector
    /\ results_2016 = NoVector
    /\ true_alpha = NoVector
    /\ NoCall
    /\ prior_entropy = 0
    /\ NoNotebook

PriorNext == Cell12

SpecPrior == PriorInit /\ [][PriorNext]_vars

(***************************************************************************)
(* Properties of election_winner and model, under SpecModel.               *)
(***************************************************************************)
\* The votes the code credits to the Democrats in the run held in the state.
Credited == dem_electoral_college_votes(alpha)

\* C1: election_winner returns 1 exactly when the votes credited to the
\* Democrats are strictly more than half of all votes, and 0 otherwise; an
\* exact tie gives 0 (Republicans).
C1_WinnerIffStrictMajority ==
    called =>
        /\ dem_win \in {0, 1}
        /\ (dem_win = 1) <=> (2 * Sum(Credited) > Sum(ec_votes_tensor))

\* C1 witness: a run in which the credited votes are exactly half of the total
\* and the Republicans win.
C1_TieWitness ==
    /\ called
    /\ 2 * Sum(Credited) = Sum(ec_votes_tensor)
    /\ dem_win = 0

MajorityWinner(a, k) ==
    IF 2 * Sum([i \in DOMAIN a |-> IF a[i] > 0 THEN k[i] ELSE 0]) > Sum(k)
    THEN 1 ELSE 0

\* C7: in every run of the model, conditioned or not, the returned dem_win and
\* the value at site "w" are the electoral college winner for the alpha of
\* that run, whatever the allocation and the poll results; the votes k it is
\* computed with never change, so two runs with the same alpha have the same w.
C7_WinnerFunctionOfAlpha ==
    /\ [](called =>
            /\ dem_win = MajorityWinner(alpha, ec_votes_tensor)
            /\ site_w = dem_win
            /\ (conditioned => alpha = true_alpha))
    /\ [][ec_votes_tensor' = ec_votes_tensor]_vars

\* C7 witness: a conditioned run on true_alpha, with some Democrat answers in
\* the poll, in which the Democrats win.
C7_Witness ==
    /\ called
    /\ conditioned
    /\ alpha = true_alpha
    /\ Sum(poll_results) > 0
    /\ dem_win = 1
    /\ site_w = 1

\* C8: every poll result lies between 0 and the number polled in that state; a
\* state that is not polled has result 0; the Democrat answers in total never
\* exceed the people polled in total.
C8_PollResultsWithinAllocation ==
    called =>
        /\ DOMAIN poll_results = DOMAIN polling_allocation
        /\ \A i \in DOMAIN poll_results :
              /\ 0 <= poll_results[i]
              /\ poll_results[i] <= polling_allocation[i]
              /\ (polling_allocation[i] = 0 => poll_results[i] = 0)
        /\ Sum(poll_results) <= Sum(polling_allocation)

\* C8 witness: a run with one state not polled and another state whose
\* respondents all answer Democrat.
C8_Witness ==
    /\ called
    /\ \E i \in DOMAIN polling_allocation :
          polling_allocation[i] = 0 /\ poll_results[i] = 0
    /\ \E j \in DOMAIN polling_allocation :
          polling_allocation[j] > 0 /\ poll_results[j] = polling_allocation[j]

(***************************************************************************)
(* Properties of the candidate allocations, under SpecDesign.              *)
(***************************************************************************)
\* C4: for every position i of the model's state order (the row order of the
\* data frame), the table re-ordered with sort_values("State") has at
\* position i the row of the frame's state i, and swing_score[i] is the score
\* 1/|0.5 - p| of that state's prior probability p.
C4_SwingScoreOfSameState ==
    pc = "cell37" =>
        /\ DOMAIN swing_score = DOMAIN frame_index
        /\ \A i \in DOMAIN frame_index :
              /\ sort_values_State(prior_prob_dem)[i].State = frame_index[i]
              /\ swing_score[i] = SwingScore(dem_prob[i])

C6_OneStateAllocations ==
    pc = "cell37" =>
        /\ DOMAIN poll_in_florida = 0..50
        /\ DOMAIN poll_in_dc = 0..50
        /\ \A i \in 0..50 :
              /\ poll_in_florida[i] = IF i = 9 THEN 1000 ELSE 0
              /\ poll_in_dc[i] = IF i = 8 THEN 1000 ELSE 0
              /\ ~(poll_in_florida[i] # 0 /\ poll_in_dc[i] # 0)
        /\ Cardinality({i \in 0..50 : poll_in_florida[i] # 0}) = 1
        /\ Cardinality({i \in 0..50 : poll_in_dc[i] # 0}) = 1

\* C6 witness: the allocations are built, Florida's 1000 at index 9 and DC's
\* at index 8, and both are entries of poll_strategies.
C6_Witness ==
    /\ pc = "cell37"
    /\ poll_in_florida # NoVector
    /\ poll_in_florida[9] = 1000
    /\ poll_in_dc[8] = 1000
    /\ Lookup(poll_strategies, "Florida") = poll_in_florida
    /\ Lookup(poll_strategies, "DC") = poll_in_dc

(***************************************************************************)
(* Properties of the scoring loop and the cells after it, under Spec.      *)
(***************************************************************************)
StrategyNames == {poll_strategies[k][1] : k \in DOMAIN poll_strategies}

CandidateAllocations == {poll_strategies[k][2] : k \in DOMAIN poll_strategies}

\* The scoring loop has finished and the retraining cell has not run yet.
LoopFinished == pc = "cell40"

\* C3: after the scoring loop, best_strategy names a candidate whose score is
\* the maximum of the four scores, whatever the scores are (zero and negative
\* ones included), so that poll_strategies[best_strategy] is a candidate
\* allocation.
C3_BestStrategyIsArgmax ==
    LoopFinished =>
        /\ DOMAIN eigs = StrategyNames
        /\ best_strategy \in StrategyNames
        /\ \A s \in StrategyNames : eigs[s] <= eigs[best_strategy]
        /\ Lookup(poll_strategies, best_strategy) \in CandidateAllocations

\* C9: when q_w is computed, the classifier was last trained with
\* best_allocation, the poll y given to it was simulated with best_allocation
\* by the model conditioned on true_alpha, and best_allocation is the
\* allocation of best_strategy; from the retraining cell to the computation
\* of q_w the classifier is not trained again and best_allocation is not
\* changed.
C9_ClassifierAndPollUseBestAllocation ==
    /\ [](pc = "done" =>
            /\ best_allocation = Lookup(poll_strategies, best_strategy)
            /\ guide = Trained(best_allocation)
            /\ q_w.trained_with = best_allocation
            /\ q_w.y = y
            /\ y = poll_results
            /\ polling_allocation = best_allocation
            /\ conditioned
            /\ alpha = true_alpha)
    /\ [][(pc \in {"cell42", "cell43", "cell47"}) =>
             (guide' = guide /\ best_allocation' = best_allocation)]_vars

\* C9 witness: q_w is computed for the Florida allocation, although the last
\* classifier trained by the scoring loop was trained with the swing one.
C9_Witness ==
    /\ pc = "done"
    /\ best_strategy = "Florida"
    /\ best_allocation = poll_in_florida
    /\ best_allocation # swing_poll
    /\ q_w.trained_with = poll_in_florida
    /\ Sum(y) > 0

\* C10 as stated: for any two strategies a and b, eigs[a] > eigs[b] exactly
\* when the loss returned for a is less than the loss returned for b.
C10_RankingExactlyReversed ==
    LoopFinished =>
        \A a, b \in StrategyNames :
            (eigs[a] > eigs[b]) <=> (losses[a] < losses[b])

\* C10 amended: every score is prior_entropy - ape for the one precomputed
\* prior_entropy, so eigs[a] > eigs[b] only if the loss returned for a is less
\* than the loss returned for b, and a smaller loss never has a smaller score;
\* two different losses can have equal scores, the float32 difference being
\* rounded.
C10_RankingReversedUpToRounding ==
    LoopFinished =>
        \A a, b \in StrategyNames :
            /\ (eigs[a] > eigs[b]) => (losses[a] < losses[b])
            /\ (losses[a] < losses[b]) => (eigs[a] >= eigs[b])
            /\ (losses[a] = losses[b]) => (eigs[a] = eigs[b])

\* C10 witness: two strategies with different losses whose scores are equal,
\* and two with different losses whose scores differ.
C10_Witness ==
    /\ LoopFinished
    /\ \E a, b \in StrategyNames : losses[a] < losses[b] /\ eigs[a] = eigs[b]
    /\ \E a, b \in StrategyNames : losses[a] < losses[b] /\ eigs[a] > eigs[b]

(***************************************************************************)
(* The prior covariance, under SpecPrior.                                  *)
(***************************************************************************)
Computed == pc = "cell14"

\* C11: prior_covariance differs from sample_covariance only on the diagonal,
\* where every entry is the float32 sum of the sample covariance's entry and
\* 0.01; every off-diagonal entry is unchanged; and the matrix is symmetric.
C11_PriorIsSymmetricSamplePlusDiagonal ==
    Computed =>
        \A i, j \in States :
            /\ i # j => prior_covariance[i][j] = sample_covariance[i][j]
            /\ prior_covariance[i][i] = Add32(sample_covariance[i][i], Cent32)
            /\ prior_covariance[i][j] = prior_covariance[j][i]

(***************************************************************************)
(* The table of marginal states, under SpecDesign.                         *)
(***************************************************************************)
TableBuilt == pc \in {"cell35", "cell37"}

\* |p - 0.5| for the sample proportion p = c/NSamples, in units of 1/(2 * NSamples).
Margin(c) == Abs(2 * c - NSamples)

\* C12: prior_prob_dem has one row for every state of the data frame and no
\* other row, the rows are in non-decreasing order of |p - 0.5|, and the
\* probability in a row is dem_prob of the state the row names.
C12_TableIsSortedPermutation ==
    TableBuilt =>
        /\ DOMAIN prior_prob_dem = DOMAIN frame_index
        /\ \A i \in DOMAIN frame_index :
              Cardinality({r \in DOMAIN prior_prob_dem :
                              prior_prob_dem[r].State = frame_index[i]}) = 1
        /\ \A r, q \in DOMAIN prior_prob_dem :
              r < q => Margin(prior_prob_dem[r].p) <= Margin(prior_prob_dem[q].p)
        /\ \A r \in DOMAIN prior_prob_dem :
              \E i \in DOMAIN frame_index :
                  /\ frame_index[i] = prior_prob_dem[r].State
                  /\ dem_prob[i] = prior_prob_dem[r].p

\* The table is built, its rows are not in the order of the data frame, and
\* they differ in |p - 0.5|.
C12_Witness ==
    /\ TableBuilt
    /\ \E r \in DOMAIN marginal : marginal[r] # r
    /\ \E r, q \in DOMAIN prior_prob_dem :
          r < q /\ Margin(prior_prob_dem[r].p) < Margin(prior_prob_dem[q].p)

====
